---- MODULE Spec2Model ----
(***************************************************************************)
(* Model of App.py: the rulebook-update notifier.  One run of the script   *)
(* is fetch -> load snapshot -> diff by title -> save snapshot -> email.   *)
(* Strings are sequences of one-character strings so that strip(), the    *)
(* link prefixing and the JSON escaping are computed, not assumed.         *)
(***************************************************************************)
EXTENDS Integers, Sequences, FiniteSets, TLC

VARIABLES
    pc,               \* position of the main script (line 148-175)
    current_updates,  \* main: result of get_updates()
    last_updates,     \* main: result of load_last_updates() (Optional)
    new_updates,      \* main: result of get_new_updates()
    file,             \* last_updates.json on disk
    outbox,           \* emails accepted by the provider during this run
    stdout,           \* the last line the run printed
    exit_code,        \* process exit status, -1 while the run is going
    calls,            \* load/save/send_email calls of this run, with arguments
    file0,            \* last_updates.json as it was when this run started
    prev_fetch,       \* what the previous run fetched (Optional)
    prev_stdout,      \* the last line the previous run printed
    arg,              \* input of the function under check (function specs)
    ret               \* its result (function specs)

vars == <<pc, current_updates, last_updates, new_updates, file, outbox,
          stdout, exit_code, calls, file0, prev_fetch, prev_stdout,
          arg, ret>>

\* ---------------------------------------------------------------- bounds
MaxBlocks == 2      \* detail / trail blocks on one fetched page
MaxRecords == 2     \* records in an input list of the function specs

\* ------------------------------------------------------------- utilities
Min(a, b) == IF a <= b THEN a ELSE b

SeqsUpTo(S, n) == UNION {[1..k -> S] : k \in 0..n}

None == [some |-> FALSE, val |-> <<>>]
Some(v) == [some |-> TRUE, val |-> v]

\* Python truthiness of an Optional[list]: None and [] are both falsy.
Falsy(opt) == ~opt.some \/ opt.val = <<>>

\* ---------------------------------------------------------------- strings
IsSpace(c) == c \in {" ", "\n"}

RECURSIVE LStrip(_)
LStrip(s) == IF s # <<>> /\ IsSpace(Head(s)) THEN LStrip(Tail(s)) ELSE s

RECURSIVE RStrip(_)
RStrip(s) ==
    IF s # <<>> /\ IsSpace(s[Len(s)]) THEN RStrip(SubSeq(s, 1, Len(s) - 1)) ELSE s

\* str.strip()
Strip(s) == RStrip(LStrip(s))

\* ------------------------------------------------------------ the fetcher
BaseUrl == <<"https://rulebook.centralbank.ae">>

\* f"https://rulebook.centralbank.ae{link}"
FullLink(href) == BaseUrl \o href

\* A div.book-detail block: its <a> (text, href) and its <time>, each of
\* which the page may lack.
Headline(hasA, aText, hasHref, href, hasTime, timeText) ==
    [has_a |-> hasA, a_text |-> aText, has_href |-> hasHref, href |-> href,
     has_time |-> hasTime, time_text |-> timeText]

\* A div.book-trail block: its span.field-content, which the page may lack.
Trail(hasSpan, spanText) == [has_span |-> hasSpan, span_text |-> spanText]

HeadlineBlocks ==
    { Headline(TRUE, <<" ", "a">>, TRUE, <<"/", "1">>, TRUE, <<"m", " ">>),
      Headline(TRUE, <<"a", "\n">>, TRUE, <<"/", "2">>, TRUE, <<"t">>),
      Headline(TRUE, <<"b">>, TRUE, <<"/", "3">>, TRUE, <<"t">>),
      Headline(FALSE, <<>>, FALSE, <<>>, TRUE, <<"t">>),
      Headline(TRUE, <<"b">>, FALSE, <<>>, TRUE, <<"t">>),
      Headline(TRUE, <<"b">>, TRUE, <<"/", "3">>, FALSE, <<>>) }

TrailBlocks ==
    { Trail(TRUE, <<" ", "x", " ">>), Trail(FALSE, <<>>) }

Pages == [headlines : SeqsUpTo(HeadlineBlocks, MaxBlocks),
          trails : SeqsUpTo(TrailBlocks, MaxBlocks),
          net_ok : BOOLEAN]

\* headline.find("a").text, headline.find("time").text,
\* headline.find("a")["href"] and trail.find(...).text all raise when the
\* element or attribute is missing.
BlockRaises(h, t) == ~h.has_a \/ ~h.has_time \/ ~h.has_href \/ ~t.has_span

\* The dict appended for one (headline, trail) pair.
MakeUpdate(h, t) ==
    [title |-> Strip(h.a_text),
     date |-> Strip(h.time_text),
     link |-> FullLink(h.href),
     body |-> Strip(t.span_text)]

\* Mutant of ZipLoop: zip(..., strict=True), which raises when one list
\* ends before the other.
RECURSIVE ZipLoop_Strict(_, _, _)
ZipLoop_Strict(hs, ts, acc) ==
    IF hs = <<>> /\ ts = <<>> THEN [status |-> "ok", updates |-> acc]
    ELSE IF hs = <<>> \/ ts = <<>> \/ BlockRaises(Head(hs), Head(ts))
         THEN [status |-> "parse_error", updates |-> <<>>]
         ELSE ZipLoop_Strict(Tail(hs), Tail(ts),
                             Append(acc, MakeUpdate(Head(hs), Head(ts))))

\* for headline, trail in zip(headlines, trails): ...   zip stops at the
\* shorter list; an exception in the body leaves the loop.
RECURSIVE ZipLoop(_, _, _)
ZipLoop(hs, ts, acc) ==
    IF hs = <<>> \/ ts = <<>> THEN [status |-> "ok", updates |-> acc]
    ELSE IF BlockRaises(Head(hs), Head(ts))
         THEN [status |-> "parse_error", updates |-> <<>>]
         ELSE ZipLoop(Tail(hs), Tail(ts),
                      Append(acc, MakeUpdate(Head(hs), Head(ts))))

\* get_updates(): status "ok" with the list returned, "network_error" when
\* requests raised (caught, sys.exit(1)), "parse_error" when another
\* exception escaped the function.
get_updates(page) ==
    IF ~page.net_ok THEN [status |-> "network_error", updates |-> <<>>]
    ELSE IF page.headlines = <<>> THEN [status |-> "ok", updates |-> <<>>]
    ELSE ZipLoop(page.headlines, page.trails, <<>>)

\* ------------------------------------------------------ the snapshot store
\* json.dump(..., ensure_ascii=False): a string is written between quotes
\* with the quote, the backslash and the newline escaped.
EscapeChar(c) ==
    IF c = "\"" THEN <<"\\", "\"">>
    ELSE IF c = "\\" THEN <<"\\", "\\">>
    ELSE IF c = "\n" THEN <<"\\", "n">>
    ELSE <<c>>

RECURSIVE JsonEscape(_)
JsonEscape(s) ==
    IF s = <<>> THEN <<>> ELSE EscapeChar(Head(s)) \o JsonEscape(Tail(s))

\* json.load: the character after a backslash names the escaped character.
UnescapeChar(c) == IF c = "n" THEN "\n" ELSE c

RECURSIVE JsonUnescape(_)
JsonUnescape(s) ==
    IF s = <<>> THEN <<>>
    ELSE IF Head(s) = "\\" /\ Len(s) >= 2
         THEN <<UnescapeChar(s[2])>> \o JsonUnescape(SubSeq(s, 3, Len(s)))
         ELSE <<Head(s)>> \o JsonUnescape(Tail(s))

\* The keys of an update, in the order the dict literal lists them.
UpdateKeys == <<"title", "date", "link", "body">>

\* One JSON object: its members, key and escaped value, in key order.
DumpObject(u) == [i \in 1..Len(UpdateKeys) |->
                     <<UpdateKeys[i], JsonEscape(u[UpdateKeys[i]])>>]

\* The text json.dump writes for a list of updates: one object per update.
JsonDump(updates) == [i \in 1..Len(updates) |-> DumpObject(updates[i])]

\* One parsed JSON object: a dict from each key present to its value.
LoadObject(members) ==
    [k \in {members[i][1] : i \in 1..Len(members)} |->
        JsonUnescape((CHOOSE m \in {members[i] : i \in 1..Len(members)} :
                          m[1] = k)[2])]

JsonLoad(text) == [i \in 1..Len(text) |-> LoadObject(text[i])]

\* last_updates.json: absent, present but not JSON, or JSON text.
NoFile == [exists |-> FALSE, valid |-> FALSE, text |-> <<>>]
CorruptFile == [exists |-> TRUE, valid |-> FALSE, text |-> <<>>]
JsonFile(text) == [exists |-> TRUE, valid |-> TRUE, text |-> text]

\* load_last_updates(): None when the file does not exist, the parsed list
\* when it does; json.load raises on a file that is not JSON.
load_last_updates(f) ==
    IF ~f.exists THEN [status |-> "ok", value |-> None]
    ELSE IF ~f.valid THEN [status |-> "error", value |-> None]
    ELSE [status |-> "ok", value |-> Some(JsonLoad(f.text))]

\* Mutant of save_updates: only the new subset is written.
save_updates_NewOnly(f, updates) == JsonFile(JsonDump(new_updates))

\* Mutant of save_updates: the file is opened with "a", so the list is
\* written after what the file held; two JSON documents are not JSON.
save_updates_Append(f, updates) ==
    IF f.exists THEN CorruptFile ELSE JsonFile(JsonDump(updates))

\* save_updates(updates) on the file f: open(filename, "w") truncates
\* whatever f held, and json.dump writes the list.
save_updates(f, updates) == JsonFile(JsonDump(updates))

\* The file that holds exactly the list updates.
SnapshotOf(updates) == JsonFile(JsonDump(updates))

\* ---------------------------------------------------------------- the differ
\* Mutant of get_new_updates: records are told apart by link.
get_new_updates_ByLink(current, last) ==
    IF Falsy(last) THEN current
    ELSE LET last_links == {last.val[i].link : i \in 1..Len(last.val)}
         IN SelectSeq(current, LAMBDA u : u.link \notin last_links)

\* Mutant of get_new_updates: nothing is filtered out.
get_new_updates_All(current, last) == current

\* get_new_updates(current_updates, last_updates)
get_new_updates(current, last) ==
    IF Falsy(last) THEN current
    ELSE LET last_update_titles == {last.val[i].title : i \in 1..Len(last.val)}
         IN SelectSeq(current, LAMBDA u : u.title \notin last_update_titles)

\* -------------------------------------------------------------- the notifier
Recipients == <<"raed.aldweik@sas.com">>

\* POSTMARK_API_KEY in .env: not set, set to the empty string, or set.
ApiKeys == {None, Some(<<>>), Some(<<"k">>)}

\* if not pm_api_key
KeyMissing(key) == ~key.some \/ key.val = <<>>

\* One <p> of the body: title, body, date, link, in that order.
EmailItem(u) == <<u.title, u.body, u.date, u.link>>

\* Mutant of ComposeEmail: the email lists the whole fetch.
ComposeEmail_All(updates, recipients) ==
    [to |-> recipients,
     count |-> Len(current_updates),
     plural |-> IF Len(current_updates) > 1 THEN "updates" ELSE "update",
     items |-> [i \in 1..Len(current_updates) |-> EmailItem(current_updates[i])]]

\* The message handed to client.emails.send (the date in the subject is
\* the wall clock's and is left out).
ComposeEmail(updates, recipients) ==
    [to |-> recipients,
     count |-> Len(updates),
     plural |-> IF Len(updates) > 1 THEN "updates" ELSE "update",
     items |-> [i \in 1..Len(updates) |-> EmailItem(updates[i])]]

\* ------------------------------------------------------------------ the driver
\* Mutants of the two emptiness tests: the test is missing.
NoUpdates_Never(updates) == FALSE

NoNewUpdates_Never(updates) == FALSE

\* line 151: if not current_updates
NoUpdates(updates) == updates = <<>>

\* line 158: if not new_updates
NoNewUpdates(updates) == updates = <<>>

Call(fn, a) == [fn |-> fn, arg |-> a]

\* Mutant of Exit: sys.exit() without the status, which exits with 0.
Exit_Zero(code, msg) ==
    /\ pc' = "done"
    /\ exit_code' = 0
    /\ stdout' = msg

\* sys.exit(code) after printing msg; an uncaught exception prints a
\* traceback and the interpreter exits with status 1.
Exit(code, msg) ==
    /\ pc' = "done"
    /\ exit_code' = code
    /\ stdout' = msg

Init ==
    /\ pc = "start"
    /\ current_updates = <<>>
    /\ last_updates = None
    /\ new_updates = <<>>
    /\ file \in {NoFile, CorruptFile}
    /\ outbox = <<>>
    /\ stdout = "Starting script..."
    /\ exit_code = -1
    /\ calls = <<>>
    /\ file0 = file
    /\ prev_fetch = None
    /\ prev_stdout = "none"
    /\ arg = None
    /\ ret = None

\* line 150-153: current_updates = get_updates(); an empty list ends the run.
Fetch ==
    /\ pc = "start"
    /\ \E page \in Pages :
         LET r == get_updates(page) IN
         IF r.status = "network_error"
         THEN Exit(1, "Error fetching updates") /\ UNCHANGED current_updates
         ELSE IF r.status = "parse_error"
         THEN Exit(1, "Traceback: get_updates") /\ UNCHANGED current_updates
         ELSE /\ current_updates' = r.updates
              /\ IF NoUpdates(r.updates)
                 THEN Exit(0, "No updates found.")
                 ELSE pc' = "load" /\ UNCHANGED <<exit_code, stdout>>
    /\ UNCHANGED <<last_updates, new_updates, file, outbox, calls, file0,
                   prev_fetch, prev_stdout, arg, ret>>

\* line 155: last_updates = load_last_updates()
Load ==
    /\ pc = "load"
    /\ calls' = Append(calls, Call("load_last_updates", <<>>))
    /\ LET r == load_last_updates(file) IN
       IF r.status = "error"
       THEN Exit(1, "Traceback: load_last_updates") /\ UNCHANGED last_updates
       ELSE /\ last_updates' = r.value
            /\ pc' = "diff"
            /\ UNCHANGED <<exit_code, stdout>>
    /\ UNCHANGED <<current_updates, new_updates, file, outbox, file0,
                   prev_fetch, prev_stdout, arg, ret>>

\* line 156-162: new_updates = get_new_updates(...); an empty list ends the run.
Diff ==
    /\ pc = "diff"
    /\ new_updates' = get_new_updates(current_updates, last_updates)
    /\ IF NoNewUpdates(new_updates')
       THEN Exit(0, "No new updates since last check.")
       ELSE /\ pc' = "save"
            /\ stdout' = "Found new updates."
            /\ UNCHANGED exit_code
    /\ UNCHANGED <<current_updates, last_updates, file, outbox, calls, file0,
                   prev_fetch, prev_stdout, arg, ret>>

\* line 165: save_updates(current_updates)
Save ==
    /\ pc = "save"
    /\ file' = save_updates(file, current_updates)
    /\ calls' = Append(calls, Call("save_updates", current_updates))
    /\ pc' = "send"
    /\ UNCHANGED <<current_updates, last_updates, new_updates, outbox, stdout,
                   exit_code, file0, prev_fetch, prev_stdout, arg, ret>>

\* line 174-175: send_email(new_updates, recipients), with the key .env
\* holds and whether the provider accepts the message.
Notify ==
    /\ pc = "send"
    /\ calls' = Append(calls, Call("send_email", new_updates))
    /\ \E key \in ApiKeys, delivered \in BOOLEAN :
         IF KeyMissing(key)
         THEN Exit(1, "Error: POSTMARK_API_KEY not found in .env file.")
              /\ UNCHANGED outbox
         ELSE IF ~delivered
         THEN Exit(1, "Error sending email") /\ UNCHANGED outbox
         ELSE /\ outbox' = Append(outbox, ComposeEmail(new_updates, Recipients))
              /\ Exit(0, "Script completed successfully.")
    /\ UNCHANGED <<current_updates, last_updates, new_updates, file, file0,
                   prev_fetch, prev_stdout, arg, ret>>

\* Did the run that just ended get a list back from get_updates()?
FetchReturned ==
    /\ pc # "start"
    /\ stdout \notin {"Error fetching updates", "Traceback: get_updates"}

\* The scheduler starts the script again: a new process, the file kept.
NextRun ==
    /\ pc = "done"
    /\ pc' = "start"
    /\ prev_fetch' = IF FetchReturned THEN Some(current_updates) ELSE None
    /\ prev_stdout' = stdout
    /\ file0' = file
    /\ current_updates' = <<>>
    /\ last_updates' = None
    /\ new_updates' = <<>>
    /\ outbox' = <<>>
    /\ stdout' = "Starting script..."
    /\ exit_code' = -1
    /\ calls' = <<>>
    /\ UNCHANGED <<file, arg, ret>>

Next == Fetch \/ Load \/ Diff \/ Save \/ Notify \/ NextRun

Spec == Init /\ [][Next]_vars

\* ------------------------------------------------------- reference notions
\* The reference diff, stated without the code's set and filter: the
\* indices of current whose title no previous record carries, and the
\* record at the k-th such index as the k-th result.
KeptIndices(current, previous) ==
    {i \in 1..Len(current) :
        \A j \in 1..Len(previous) : previous[j].title # current[i].title}

RefDiff(current, prevOpt) ==
    IF ~prevOpt.some THEN current
    ELSE LET K == KeptIndices(current, prevOpt.val)
         IN [k \in 1..Cardinality(K) |->
                current[CHOOSE i \in K : Cardinality({j \in K : j <= i}) = k]]

Called(fn) == \E i \in 1..Len(calls) : calls[i].fn = fn

CountCalls(fn) == Cardinality({i \in 1..Len(calls) : calls[i].fn = fn})

\* The snapshot this run started from, as load_last_updates() reads it.
PriorSnapshot == load_last_updates(file0)

\* The run is over, its fetch returned a non-empty list and the snapshot
\* was readable: the diff decides what happens.
RunDiffed ==
    /\ pc = "done"
    /\ FetchReturned
    /\ current_updates # <<>>
    /\ PriorSnapshot.status = "ok"

EmptyDiffRun == RunDiffed /\ RefDiff(current_updates, PriorSnapshot.value) = <<>>

NonEmptyDiffRun == RunDiffed /\ RefDiff(current_updates, PriorSnapshot.value) # <<>>

\* ------------------------------------------------------------------ claims

\* C1 as stated: in a run whose fetch is non-empty and whose diff is empty,
\* the driver still calls save with the full fetch, so the snapshot holds
\* that fetch, and it does not call notify.
C1_SaveOnEmptyDiff ==
    EmptyDiffRun =>
        /\ \E i \in 1..Len(calls) : calls[i] = Call("save_updates", current_updates)
        /\ file = SnapshotOf(current_updates)
        /\ ~Called("send_email")
        /\ outbox = <<>>

\* C1 amended: in a run whose fetch is non-empty and whose diff is empty,
\* the driver calls neither save nor notify: the snapshot file is left as
\* it was, no email is sent and the run exits with code 0.
C1_NoSaveOnEmptyDiff ==
    EmptyDiffRun =>
        /\ ~Called("save_updates")
        /\ ~Called("send_email")
        /\ file = file0
        /\ outbox = <<>>
        /\ exit_code = 0

\* C1 witness: an empty-diff run ended while the snapshot differs from the
\* fetch (same titles, other links), so a rewrite would have shown.
C1_Witness ==
    /\ EmptyDiffRun
    /\ file0 # SnapshotOf(current_updates)
    /\ stdout = "No new updates since last check."

\* C2: no run with a non-empty diff ends with the snapshot overwritten by
\* the current fetch while the email for its new records was not sent.
C2_NoPartialSuccess ==
    (NonEmptyDiffRun /\ Called("save_updates") /\ file = SnapshotOf(current_updates))
        => Len(outbox) = 1

\* C3: an empty fetch ends the run with no load, save or notify call, the
\* snapshot file untouched, no email and exit code 0.
C3_EmptyFetch ==
    (pc = "done" /\ FetchReturned /\ current_updates = <<>>) =>
        /\ calls = <<>>
        /\ file = file0
        /\ outbox = <<>>
        /\ exit_code = 0

\* C3 witness: a run that fetched nothing has ended, with a snapshot on disk.
C3_Witness ==
    /\ pc = "done"
    /\ stdout = "No updates found."
    /\ current_updates = <<>>
    /\ file0.exists /\ file0.valid

\* C5: when a run fetches the list the previous run fetched, it sends no
\* email, however the previous run ended.
C5_NoDuplicateEmail ==
    (pc # "start" /\ FetchReturned /\ prev_fetch = Some(current_updates))
        => (outbox = <<>> /\ ~Called("send_email"))

\* C5 witness: the previous run saved and then failed to deliver, and this
\* run fetched the same non-empty list and has ended.
C5_Witness ==
    /\ pc = "done"
    /\ FetchReturned
    /\ current_updates # <<>>
    /\ prev_fetch = Some(current_updates)
    /\ prev_stdout = "Error sending email"

\* C6: a run with a non-empty diff in which no step fails leaves the
\* snapshot equal to the full fetch and sends exactly one email, listing
\* exactly the diff against the prior snapshot in fetch order.
C6_FullSuccess ==
    (NonEmptyDiffRun /\ exit_code = 0) =>
        LET d == RefDiff(current_updates, PriorSnapshot.value) IN
        /\ load_last_updates(file) = [status |-> "ok", value |-> Some(current_updates)]
        /\ Len(outbox) = 1
        /\ outbox[1].count = Len(d)
        /\ outbox[1].items = [i \in 1..Len(d) |-> EmailItem(d[i])]
        /\ CountCalls("send_email") = 1

\* C6 witness: a successful run whose email lists fewer records than the
\* snapshot it wrote (the snapshot is the full fetch, the email the delta).
C6_Witness ==
    /\ NonEmptyDiffRun
    /\ exit_code = 0
    /\ Len(outbox) = 1
    /\ Len(outbox[1].items) = 1
    /\ Len(current_updates) = 2
    /\ file = SnapshotOf(current_updates)

\* The lines a run can end on.
SuccessLines == {"No updates found.", "No new updates since last check.",
                 "Script completed successfully."}

HandledFailureLines == {"Error fetching updates",
                        "Error: POSTMARK_API_KEY not found in .env file.",
                        "Error sending email"}

UncaughtLines == {"Traceback: get_updates", "Traceback: load_last_updates"}

\* What the three exit-0 outcomes are in terms of the run's data.
EndedWithNothingToDo ==
    \/ FetchReturned /\ current_updates = <<>>
    \/ EmptyDiffRun
    \/ NonEmptyDiffRun /\ Len(outbox) = 1

RunStep == Fetch \/ Load \/ Diff \/ Save \/ Notify

\* C7 as stated: every run ends in one of six outcomes: no updates, no new
\* updates or full success with code 0; network failure, missing
\* credential or delivery failure with code 1.
C7_SixOutcomes ==
    pc = "done" =>
        /\ stdout \in SuccessLines \cup HandledFailureLines
        /\ exit_code = 0 <=> stdout \in SuccessLines
        /\ exit_code = 1 <=> stdout \in HandledFailureLines

\* C7 amended: the exit code is 0 exactly in the outcomes no updates, no
\* new updates and full success, and 1 for a network failure, a missing
\* credential, a delivery failure and also for an exception nothing
\* catches (a page block lacking an element, a snapshot file that is not
\* JSON); every run ends in one of these outcomes with that code.
C7_ExitCodes ==
    /\ pc = "done" =>
        /\ stdout \in SuccessLines \cup HandledFailureLines \cup UncaughtLines
        /\ exit_code = 0 <=> stdout \in SuccessLines
        /\ exit_code = 1 <=> stdout \in HandledFailureLines \cup UncaughtLines
        /\ exit_code = 0 <=> EndedWithNothingToDo
    /\ pc # "done" => (exit_code = -1 /\ ENABLED RunStep)

\* C7 witness: a run ended with code 1 on an exception nothing catches.
C7_Witness ==
    /\ pc = "done"
    /\ exit_code = 1
    /\ stdout = "Traceback: load_last_updates"

\* C10: save is called only with the non-empty fetch and never after
\* notify, notify at most once per run, only right after save and only
\* with a non-empty diff; a readable snapshot on disk is never empty.
C10_NeverEmpty ==
    /\ \A i \in 1..Len(calls) :
          /\ calls[i].fn = "save_updates" =>
                (calls[i].arg # <<>> /\ calls[i].arg = current_updates
                 /\ \A j \in 1..i : calls[j].fn # "send_email")
          /\ calls[i].fn = "send_email" =>
                (calls[i].arg # <<>> /\ i > 1 /\ calls[i - 1].fn = "save_updates"
                 /\ calls[i].arg = RefDiff(current_updates, PriorSnapshot.value))
    /\ CountCalls("send_email") <= 1
    /\ CountCalls("save_updates") <= 1
    /\ Len(outbox) <= 1
    /\ \A i \in 1..Len(outbox) : outbox[i].count > 0
    /\ (file.exists /\ file.valid) => load_last_updates(file).value.val # <<>>

\* C10 witness: a second run has saved and notified, starting from a
\* snapshot an earlier run wrote.
C10_Witness ==
    /\ pc = "done"
    /\ prev_fetch.some
    /\ file0.exists /\ file0.valid
    /\ Called("save_updates")
    /\ Called("send_email")
    /\ Len(outbox) = 1

\* ------------------------------------------------ get_new_updates on its own
DiffRecord(title, link) ==
    [title |-> title, date |-> <<"t">>, link |-> link, body |-> <<"x">>]

\* Titles that differ in case or in a trailing space are different titles;
\* two records may share a title.
DiffRecords ==
    { DiffRecord(<<"a">>, <<"1">>), DiffRecord(<<"a">>, <<"2">>),
      DiffRecord(<<"b">>, <<"3">>), DiffRecord(<<"A">>, <<"1">>),
      DiffRecord(<<"a", " ">>, <<"5">>) }

DiffInit ==
    /\ pc = "call"
    /\ arg \in {Some([current |-> c, last |-> l]) :
                  c \in SeqsUpTo(DiffRecords, MaxRecords),
                  l \in {None} \cup {Some(q) : q \in SeqsUpTo(DiffRecords, MaxRecords)}}
    /\ ret = None
    /\ current_updates = <<>> /\ last_updates = None /\ new_updates = <<>>
    /\ file = NoFile /\ file0 = NoFile /\ outbox = <<>> /\ calls = <<>>
    /\ stdout = "" /\ exit_code = -1
    /\ prev_fetch = None /\ prev_stdout = "none"

DiffCall ==
    /\ pc = "call"
    /\ ret' = Some(get_new_updates(arg.val.current, arg.val.last))
    /\ pc' = "return"
    /\ UNCHANGED <<current_updates, last_updates, new_updates, file, outbox,
                   stdout, exit_code, calls, file0, prev_fetch, prev_stdout, arg>>

SpecDiff == DiffInit /\ [][DiffCall]_vars

\* C4: get_new_updates(current, previous) is the reference diff: current
\* itself when previous is none, otherwise the records of current, in
\* current's order, whose title no record of previous carries; and
\* get_new_updates(F, F) is empty.
C4_DiffIsReference ==
    pc = "return" =>
        LET c == arg.val.current
            l == arg.val.last
        IN /\ ret.val = RefDiff(c, l)
           /\ ~l.some => ret.val = c
           /\ l = Some(c) => ret.val = <<>>

\* C4 witness: a call returned a proper, non-empty part of a two-record
\* current list: the second record only.
C4_Witness ==
    /\ pc = "return"
    /\ arg.val.last.some
    /\ Len(arg.val.current) = 2
    /\ ret.val = <<arg.val.current[2]>>

\* ------------------------------------------------ the snapshot store on its own
StoreRecords ==
    [title : {<<"a">>, <<"\"">>, <<"\\", "n">>, <<"a", "\n", "\\">>},
     date : {<<"d">>},
     link : {<<"/", "l">>},
     body : {<<"x">>, <<"\\", "\"">>}]

\* A snapshot an earlier run left.
OldSnapshot == SnapshotOf(<<DiffRecord(<<"o">>, <<"0">>)>>)

StoreInit ==
    /\ pc = "call"
    /\ arg \in {Some(F) : F \in SeqsUpTo(StoreRecords, MaxRecords)}
    /\ ret = None
    /\ file \in {NoFile, OldSnapshot}
    /\ file0 = file
    /\ current_updates = <<>> /\ last_updates = None /\ new_updates = <<>>
    /\ outbox = <<>> /\ calls = <<>>
    /\ stdout = "" /\ exit_code = -1
    /\ prev_fetch = None /\ prev_stdout = "none"

\* save_updates(F)
StoreSave ==
    /\ pc = "call"
    /\ file' = save_updates(file, arg.val)
    /\ pc' = "saved"
    /\ UNCHANGED <<current_updates, last_updates, new_updates, outbox, stdout,
                   exit_code, calls, file0, prev_fetch, prev_stdout, arg, ret>>

\* load_last_updates(), after the save or with the file as it was
StoreLoad ==
    /\ pc \in {"call", "saved"}
    /\ ret' = Some(load_last_updates(file))
    /\ pc' = IF pc = "saved" THEN "reloaded" ELSE "loaded"
    /\ UNCHANGED <<current_updates, last_updates, new_updates, file, outbox,
                   stdout, exit_code, calls, file0, prev_fetch, prev_stdout, arg>>

StoreNext == StoreSave \/ StoreLoad

SpecStore == StoreInit /\ [][StoreNext]_vars

\* C8: load_last_updates() after save_updates(F) returns F, and
\* load_last_updates() returns none when there is no snapshot file.
C8_RoundTrip ==
    /\ pc = "reloaded" => ret.val = [status |-> "ok", value |-> Some(arg.val)]
    /\ (pc = "loaded" /\ ~file.exists) => ret.val = [status |-> "ok", value |-> None]

\* C8 witness: two records with quotes, backslashes and a newline in them
\* were saved over an older snapshot and read back.
C8_Witness ==
    /\ pc = "reloaded"
    /\ file0 = OldSnapshot
    /\ Len(arg.val) = 2
    /\ arg.val[1].title = <<"a", "\n", "\\">>
    /\ arg.val[2].body = <<"\\", "\"">>
    /\ ret.val.value.val = arg.val

\* ---------------------------------------------------- get_updates on its own
WideTrailBlocks ==
    TrailBlocks \cup {Trail(TRUE, <<"y">>)}

WidePages == [headlines : SeqsUpTo(HeadlineBlocks, MaxBlocks),
              trails : SeqsUpTo(WideTrailBlocks, MaxBlocks),
              net_ok : BOOLEAN]

FetchInit ==
    /\ pc = "call"
    /\ arg \in {Some(p) : p \in WidePages}
    /\ ret = None
    /\ current_updates = <<>> /\ last_updates = None /\ new_updates = <<>>
    /\ file = NoFile /\ file0 = NoFile /\ outbox = <<>> /\ calls = <<>>
    /\ stdout = "" /\ exit_code = -1
    /\ prev_fetch = None /\ prev_stdout = "none"

FetchCall ==
    /\ pc = "call"
    /\ ret' = Some(get_updates(arg.val))
    /\ pc' = "return"
    /\ UNCHANGED <<current_updates, last_updates, new_updates, file, outbox,
                   stdout, exit_code, calls, file0, prev_fetch, prev_stdout, arg>>

SpecFetch == FetchInit /\ [][FetchCall]_vars

\* C9 as stated: record i pairs detail block i with trail block i, one
\* record per detail block; when the page has detail blocks and their
\* number differs from the number of trail blocks, the fetch returns no
\* list but fails with a parse error.
C9_MismatchRaises ==
    (pc = "return" /\ arg.val.net_ok) =>
        LET h == arg.val.headlines
            t == arg.val.trails
        IN /\ (h # <<>> /\ Len(h) # Len(t)) => ret.val.status = "parse_error"
           /\ ret.val.status = "ok" =>
                 /\ Len(ret.val.updates) = Len(h)
                 /\ \A i \in 1..Len(h) : ret.val.updates[i] = MakeUpdate(h[i], t[i])

\* C9 amended: record i pairs detail block i with trail block i, and the
\* fetch returns one record per pair, as many as the shorter of the two
\* block lists has (none when there is no detail block); blocks beyond
\* that are dropped without an error, and the fetch fails with a parse
\* error exactly when a paired block lacks an element it reads.
C9_ZipPairs ==
    pc = "return" =>
        LET h == arg.val.headlines
            t == arg.val.trails
            n == Min(Len(h), Len(t))
            r == ret.val
        IN IF ~arg.val.net_ok THEN r.status = "network_error"
           ELSE /\ r.status = "parse_error" <=>
                      \E i \in 1..n : BlockRaises(h[i], t[i])
                /\ r.status \in {"ok", "parse_error"}
                /\ r.status = "ok" =>
                      /\ Len(r.updates) = n
                      /\ \A i \in 1..n :
                            /\ r.updates[i].title = Strip(h[i].a_text)
                            /\ r.updates[i].date = Strip(h[i].time_text)
                            /\ r.updates[i].link = BaseUrl \o h[i].href
                            /\ r.updates[i].body = Strip(t[i].span_text)

\* C9 witness: a page with two detail blocks and one trail block came
\* back as a list of one record, built from the first of each.
C9_Witness ==
    /\ pc = "return"
    /\ arg.val.net_ok
    /\ Len(arg.val.headlines) = 2
    /\ Len(arg.val.trails) = 1
    /\ ret.val.status = "ok"
    /\ Len(ret.val.updates) = 1
    /\ ret.val.updates[1].body = <<"y">>

====
